---- MODULE Spec2Model ----
(***************************************************************************)
(* Logger registry and level management of logging-lib                     *)
(* (src/logger/LoggerFactory.ts): the development manager                  *)
(* (DevLoggerManager) and the production manager (LiveLoggerManager).      *)
(*                                                                         *)
(* Logger names are sequences of one-character strings, so that endsWith,  *)
(* startsWith and slice are computed as the code computes them.            *)
(***************************************************************************)
EXTENDS Integers, Sequences, FiniteSets, TLC

VARIABLES nodeEnv, devMode, installed, enablePretty,
          manager, defaultLevel, enablePackagePrefix, levelMappings, loggers,
          detached, last

vars == <<nodeEnv, devMode, installed, enablePretty,
          manager, defaultLevel, enablePackagePrefix, levelMappings, loggers,
          detached, last>>

\* what the manager in place was built from, and the count of managers
\* installed over it
processVars == <<nodeEnv, devMode, installed, enablePretty>>

\* an absent level (undefined)
None == "none"
\* an absent or empty name (undefined and '' are both falsy)
NoName == <<>>

(* ---------------- bounds ---------------- *)
MaxMappings == 2
MaxLoggers == 3
MaxDetached == 1
MaxInstalls == 2

(* ---------------- severities ---------------- *)
\* pino's Level type with pino's numeric values
LevelVal == [trace |-> 10, debug |-> 20, info |-> 30, warn |-> 40,
             error |-> 50, fatal |-> 60]
Levels == DOMAIN LevelVal
\* levels passed to create, setLevel, setChildrenLevel, addLevelMapping
InputLevels == {"warn", "error"}
\* level of a pino logger built without a level option
PinoDefaultLevel == "info"
ROOT_LOGGER_NAME == <<"_", "R", "_">>

(* ---------------- names ---------------- *)
N_p == <<"p">>
N_ps == <<"p", "/">>
N_pstar == <<"p", "/", "*">>
N_pa == <<"p", "/", "a">>
N_pastar == <<"p", "/", "a", "/", "*">>
N_pab == <<"p", "/", "a", "/", "b">>
N_pxa == <<"p", "x", "/", "a">>
N_pxstar == <<"p", "x", "/", "*">>
N_a == <<"a">>
N_ab == <<"a", "/", "b">>
N_scoped == <<"@", "s", "/", "p">>

\* opts.redact values: absent, or an array of paths
NoRedact == [given |-> FALSE, paths |-> <<>>]
KeyRedact == [given |-> TRUE, paths |-> <<"key">>]
\* the redact option handed to the sink's child()
NoRedactOpts == [set |-> FALSE, paths |-> <<>>, remove |-> FALSE]

\* (value of getLoggerPackage() for the caller, name passed to create,
\*  opts.redact); with LOG_PACKAGE=false the caller is never looked at
PrefixedCalls == {<<N_p, N_a, NoRedact>>, <<N_scoped, N_a, NoRedact>>,
                  <<N_p, N_ab, NoRedact>>,
                  <<NoName, N_pxa, NoRedact>>, <<NoName, N_pxa, KeyRedact>>,
                  <<NoName, N_p, NoRedact>>}
PlainCalls == {<<NoName, N_pa, NoRedact>>, <<NoName, N_pab, NoRedact>>,
               <<NoName, N_pxa, NoRedact>>, <<NoName, N_pxa, KeyRedact>>,
               <<NoName, N_p, NoRedact>>}
CreateCalls == IF enablePackagePrefix THEN PrefixedCalls ELSE PlainCalls
\* (pattern, level) passed to addLevelMapping
MappingCalls == {<<N_pstar, "warn">>, <<N_pstar, "error">>,
                 <<N_pastar, "error">>, <<N_pa, "error">>}
\* names passed to setLevel and to setChildrenLevel
SetLevelNames == {N_p, N_pa, N_pstar}
SetChildrenNames == {N_p, N_ps, N_pstar, N_pastar}

(* ---------------- string helpers ---------------- *)
StartsWith(s, pre) == Len(pre) <= Len(s) /\ SubSeq(s, 1, Len(pre)) = pre

EndsWith(s, suf) ==
    Len(suf) <= Len(s) /\ SubSeq(s, Len(s) - Len(suf) + 1, Len(s)) = suf

\* s.slice(0, -1)
DropLast(s) == SubSeq(s, 1, Len(s) - 1)

IndexOf(s, c) ==
    IF \E i \in 1..Len(s) : s[i] = c
    THEN CHOOSE i \in 1..Len(s) : s[i] = c /\ \A j \in 1..(i - 1) : s[j] # c
    ELSE 0

ReplaceAll(s, c, d) == [i \in 1..Len(s) |-> IF s[i] = c THEN d ELSE s[i]]

isPrefixMatch(name) == EndsWith(name, <<"/", "*">>)

\* bug: the star of "p/*" is kept
normalizePrefixMatch_KeepStar(name) ==
    IF EndsWith(name, <<"/">>) THEN name ELSE name \o <<"/">>

normalizePrefixMatch(name) ==
    IF EndsWith(name, <<"/", "*">>) THEN DropLast(name)
    ELSE IF EndsWith(name, <<"/">>) THEN name
    ELSE name \o <<"/">>

(* ---------------- registry helpers ---------------- *)
EmptyMap == [n \in {} |-> NoName]

\* bug: set leaves an entry that is already there
MapSet_KeepExisting(m, k, v) ==
    [n \in DOMAIN m \cup {k} |-> IF n \in DOMAIN m THEN m[n] ELSE v]

\* Map.set
MapSet(m, k, v) == [n \in DOMAIN m \cup {k} |-> IF n = k THEN v ELSE m[n]]


\* bug: prefix patterns are compared like exact names
MappingMatches_ExactOnly(e, name) == e.name = name

\* e matches name as levelMappings.find's callback decides it
MappingMatches(e, name) ==
    IF EndsWith(e.name, <<"/", "*">>)
    THEN StartsWith(name, DropLast(e.name))
    ELSE e.name = name

\* bug: the scan keeps the last matching mapping instead of the first
findMappingLevel_Last(name) ==
    IF \E i \in 1..Len(levelMappings) : MappingMatches(levelMappings[i], name)
    THEN levelMappings[CHOOSE i \in 1..Len(levelMappings) :
                          /\ MappingMatches(levelMappings[i], name)
                          /\ \A j \in (i + 1)..Len(levelMappings) :
                                ~MappingMatches(levelMappings[j], name)].level
    ELSE None

\* bug: a mapping for the exact name is preferred to an earlier pattern
findMappingLevel_ExactFirst(name) ==
    IF \E i \in 1..Len(levelMappings) : levelMappings[i].name = name
    THEN levelMappings[CHOOSE i \in 1..Len(levelMappings) :
                          /\ levelMappings[i].name = name
                          /\ \A j \in 1..(i - 1) :
                                levelMappings[j].name # name].level
    ELSE IF \E i \in 1..Len(levelMappings) : MappingMatches(levelMappings[i], name)
    THEN levelMappings[CHOOSE i \in 1..Len(levelMappings) :
                          /\ MappingMatches(levelMappings[i], name)
                          /\ \A j \in 1..(i - 1) :
                                ~MappingMatches(levelMappings[j], name)].level
    ELSE None

findMappingLevel(name) ==
    IF \E i \in 1..Len(levelMappings) : MappingMatches(levelMappings[i], name)
    THEN levelMappings[CHOOSE i \in 1..Len(levelMappings) :
                          /\ MappingMatches(levelMappings[i], name)
                          /\ \A j \in 1..(i - 1) :
                                ~MappingMatches(levelMappings[j], name)].level
    ELSE None

\* a || b on optional values
OrElse(a, b) == IF a # None THEN a ELSE b

(* ---------------- DevLoggerManager ---------------- *)
\* the scoped-name rewrite of getOrCreatePackageLogger
PackageKey(pkg) ==
    IF StartsWith(pkg, <<"@">>) /\ IndexOf(pkg, "/") > 0
    THEN ReplaceAll(SubSeq(pkg, IndexOf(pkg, "/") + 1, Len(pkg)), "/", "_")
    ELSE pkg

\* a sink is named by its table key and kind; root sinks have no parent
SinkOf(h) == <<h.name, h.kind>>
NoParent == <<NoName, "none">>
GlobalRoot == <<ROOT_LOGGER_NAME, "root">>

\* no handle (undefined)
NoHandle == [name |-> NoName, kind |-> "none", level |-> None,
             redact |-> NoRedactOpts, parent |-> NoParent]

\* what a call did besides returning: whether it threw, the package the
\* resolver returned and the number of times it ran, the opts.redact it was
\* given, and the handle it returned or was made on
NoInfo == [threw |-> FALSE, caller |-> NoName, runs |-> 0, redact |-> NoRedact,
           handle |-> NoHandle]

\* the most recent call: its arguments, the qualified name it resolved, its
\* return value and the number of records it wrote
NoCall == [op |-> "init", name |-> NoName, qname |-> NoName, level |-> None,
           count |-> 0, wrote |-> 0, info |-> NoInfo]

\* a root sink as createRoot builds it
createRoot(name) ==
    [name |-> name, kind |-> "root", level |-> PinoDefaultLevel,
     redact |-> NoRedactOpts, parent |-> NoParent]

\* the table after getOrCreatePackageLogger for a caller of package pkg
TableWithPackage(pkg) ==
    IF PackageKey(pkg) = NoName \/ PackageKey(pkg) \in DOMAIN loggers
    THEN loggers
    ELSE MapSet(loggers, PackageKey(pkg), createRoot(PackageKey(pkg)))

\* bug: the mapping is consulted before the explicit level
ResolveLevel_MappingFirst(level, qname) ==
    OrElse(findMappingLevel(qname), OrElse(level, defaultLevel))

\* bug: no fallback to the default level
ResolveLevel_NoDefault(level, qname) == OrElse(level, findMappingLevel(qname))

\* bug: a name that is registered keeps the level its logger has
ResolveLevel_Sticky(level, qname) ==
    IF qname \in DOMAIN loggers THEN loggers[qname].level
    ELSE OrElse(level, OrElse(findMappingLevel(qname), defaultLevel))

\* opts?.level || this.findMappingLevel(name) || this.defaultLevel
ResolveLevel(level, qname) ==
    OrElse(level, OrElse(findMappingLevel(qname), defaultLevel))

\* bug: the paths are censored in place instead of removed
RedactOpts_Censor(redact) ==
    IF redact.given
    THEN [set |-> TRUE, paths |-> redact.paths, remove |-> FALSE]
    ELSE NoRedactOpts

\* redactOpts of create
RedactOpts(redact) ==
    IF redact.given
    THEN [set |-> TRUE, paths |-> redact.paths, remove |-> TRUE]
    ELSE NoRedactOpts

\* bug: the resolver is skipped once the package has its root sink
ResolverRuns_Memoized(pkg) ==
    IF enablePackagePrefix /\ PackageKey(pkg) \notin DOMAIN loggers THEN 1 ELSE 0

\* runs of getLoggerPackage() in one create: getOrCreatePackageLogger calls it
\* first thing, and create calls getOrCreatePackageLogger under LOG_PACKAGE
ResolverRuns(pkg) == IF enablePackagePrefix THEN 1 ELSE 0

\* keep: whether the caller of an earlier create still holds the handle that
\* this create replaces in the table
create(caller, name, level, redact, keep) ==
    LET prefixed == enablePackagePrefix /\ PackageKey(caller) # NoName
        table == IF enablePackagePrefix THEN TableWithPackage(caller) ELSE loggers
        qname == IF prefixed THEN PackageKey(caller) \o <<"/">> \o name ELSE name
        parent == IF prefixed THEN SinkOf(table[PackageKey(caller)])
                  ELSE GlobalRoot
        newLogger == [name |-> qname, kind |-> "child",
                      level |-> ResolveLevel(level, qname),
                      redact |-> RedactOpts(redact), parent |-> parent]
    IN /\ manager = "dev"
       /\ Cardinality(DOMAIN table \cup {qname}) <= MaxLoggers
       /\ keep => qname \in DOMAIN table /\ Cardinality(detached) < MaxDetached
       /\ loggers' = MapSet(table, qname, newLogger)
       /\ detached' = IF keep THEN detached \cup {table[qname]} ELSE detached
       /\ last' = [op |-> "create", name |-> name, qname |-> qname,
                   level |-> level, count |-> 0, wrote |-> 0,
                   info |-> [threw |-> FALSE, caller |-> caller,
                             runs |-> ResolverRuns(caller), redact |-> redact,
                             handle |-> newLogger]]
       /\ UNCHANGED <<processVars, manager, defaultLevel, enablePackagePrefix,
                      levelMappings>>

\* bug: the logger named like the prefix itself is set as well
ChildrenSet_WithSelf(name, level) ==
    [n \in DOMAIN loggers |->
        IF \/ StartsWith(n, normalizePrefixMatch(name))
           \/ n = DropLast(normalizePrefixMatch(name))
        THEN [loggers[n] EXCEPT !.level = level] ELSE loggers[n]]

\* bug: every logger of the table is set, under the prefix or not
ChildrenSet_All(name, level) ==
    [n \in DOMAIN loggers |-> [loggers[n] EXCEPT !.level = level]]

\* bug: a logger whose level is not the default level keeps it
ChildrenSet_KeepNonDefault(name, level) ==
    [n \in DOMAIN loggers |->
        IF /\ StartsWith(n, normalizePrefixMatch(name))
           /\ loggers[n].level = defaultLevel
        THEN [loggers[n] EXCEPT !.level = level] ELSE loggers[n]]

\* setChildrenLevel as a function of the table: the table with every entry
\* under the normalized prefix set to level
ChildrenSet(name, level) ==
    [n \in DOMAIN loggers |->
        IF StartsWith(n, normalizePrefixMatch(name))
        THEN [loggers[n] EXCEPT !.level = level] ELSE loggers[n]]

\* bug: the count is the size of the whole table
ChildrenCount_All(name) == Cardinality(DOMAIN loggers)

ChildrenCount(name) ==
    Cardinality({n \in DOMAIN loggers : StartsWith(n, normalizePrefixMatch(name))})

\* bug: an exact name is also applied to everything nested under it
LevelSet_AsPrefix(name, level) ==
    [n \in DOMAIN loggers |->
        IF n = name \/ StartsWith(n, normalizePrefixMatch(name))
        THEN [loggers[n] EXCEPT !.level = level] ELSE loggers[n]]

\* setLevel as a function of the table
LevelSet(name, level) ==
    IF isPrefixMatch(name) THEN ChildrenSet(name, level)
    ELSE IF name \in DOMAIN loggers
         THEN [loggers EXCEPT ![name].level = level]
         ELSE loggers

setLevel(name, level) ==
    /\ manager = "dev"
    /\ loggers' = LevelSet(name, level)
    /\ last' = [op |-> "setLevel", name |-> name, qname |-> NoName,
                level |-> level, count |-> 0, wrote |-> 0, info |-> NoInfo]
    /\ UNCHANGED <<processVars, manager, defaultLevel, enablePackagePrefix,
                   levelMappings, detached>>

\* bug: handles that were replaced in the table are set as well
setChildrenLevel_AlsoDetached(name, level) ==
    /\ manager = "dev"
    /\ loggers' = ChildrenSet(name, level)
    /\ detached' = {IF StartsWith(h.name, normalizePrefixMatch(name))
                    THEN [h EXCEPT !.level = level] ELSE h : h \in detached}
    /\ last' = [op |-> "setChildrenLevel", name |-> name, qname |-> NoName,
                level |-> level, count |-> ChildrenCount(name), wrote |-> 0, info |-> NoInfo]
    /\ UNCHANGED <<processVars, manager, defaultLevel, enablePackagePrefix,
                   levelMappings>>

setChildrenLevel(name, level) ==
    /\ manager = "dev"
    /\ loggers' = ChildrenSet(name, level)
    /\ last' = [op |-> "setChildrenLevel", name |-> name, qname |-> NoName,
                level |-> level, count |-> ChildrenCount(name), wrote |-> 0, info |-> NoInfo]
    /\ UNCHANGED <<processVars, manager, defaultLevel, enablePackagePrefix,
                   levelMappings, detached>>

\* bug: the mapping is recorded but existing loggers are left alone
addLevelMapping_NoCascade(name, level) ==
    /\ manager = "dev"
    /\ Len(levelMappings) < MaxMappings
    /\ levelMappings' = Append(levelMappings, [name |-> name, level |-> level])
    /\ loggers' = loggers
    /\ last' = [op |-> "addLevelMapping", name |-> name, qname |-> NoName,
                level |-> level, count |-> 0, wrote |-> 0, info |-> NoInfo]
    /\ UNCHANGED <<processVars, manager, defaultLevel, enablePackagePrefix, detached>>

\* bug: existing loggers are updated but the mapping is not recorded
addLevelMapping_NoAppend(name, level) ==
    /\ manager = "dev"
    /\ Len(levelMappings) < MaxMappings
    /\ levelMappings' = levelMappings
    /\ loggers' = IF isPrefixMatch(name) THEN ChildrenSet(name, level)
                  ELSE LevelSet(name, level)
    /\ last' = [op |-> "addLevelMapping", name |-> name, qname |-> NoName,
                level |-> level, count |-> 0, wrote |-> 0, info |-> NoInfo]
    /\ UNCHANGED <<processVars, manager, defaultLevel, enablePackagePrefix, detached>>

\* bug: the mapping is put in front of the list
addLevelMapping_Prepend(name, level) ==
    /\ manager = "dev"
    /\ Len(levelMappings) < MaxMappings
    /\ levelMappings' = <<[name |-> name, level |-> level]>> \o levelMappings
    /\ loggers' = IF isPrefixMatch(name) THEN ChildrenSet(name, level)
                  ELSE LevelSet(name, level)
    /\ last' = [op |-> "addLevelMapping", name |-> name, qname |-> NoName,
                level |-> level, count |-> 0, wrote |-> 0, info |-> NoInfo]
    /\ UNCHANGED <<processVars, manager, defaultLevel, enablePackagePrefix, detached>>

addLevelMapping(name, level) ==
    /\ manager = "dev"
    /\ Len(levelMappings) < MaxMappings
    /\ levelMappings' = Append(levelMappings, [name |-> name, level |-> level])
    /\ loggers' = IF isPrefixMatch(name) THEN ChildrenSet(name, level)
                  ELSE LevelSet(name, level)
    /\ last' = [op |-> "addLevelMapping", name |-> name, qname |-> NoName,
                level |-> level, count |-> 0, wrote |-> 0, info |-> NoInfo]
    /\ UNCHANGED <<processVars, manager, defaultLevel, enablePackagePrefix, detached>>

(* ---------------- LiveLoggerManager ---------------- *)
\* whether a sink at threshold level writes a record of the given severity
Emits(level, severity) == LevelVal[severity] >= LevelVal[level]

\* bug: the root sink is built without the level option
LiveRootLevel_PinoDefault == PinoDefaultLevel

\* the root sink of the production manager: pino({ level: defaultLevel })
LiveRootLevel == defaultLevel

\* records written by this.rootLogger.warn(...)
LiveWarn == IF Emits(LiveRootLevel, "warn") THEN 1 ELSE 0

\* bug: opts.level is ignored
LiveCreate_DefaultOnly(name, level, redact, held) ==
    LET newLogger == [name |-> name, kind |-> "child", level |-> defaultLevel,
                      redact |-> RedactOpts(redact), parent |-> GlobalRoot]
    IN /\ manager = "live"
       /\ held => Cardinality(detached \cup {newLogger}) <= MaxDetached
       /\ detached' = IF held THEN detached \cup {newLogger} ELSE detached
       /\ last' = [op |-> "create", name |-> name, qname |-> name,
                   level |-> level, count |-> 0, wrote |-> 0,
                   info |-> [NoInfo EXCEPT !.redact = redact,
                                           !.handle = newLogger]]
       /\ UNCHANGED <<processVars, manager, defaultLevel, enablePackagePrefix,
                      levelMappings, loggers>>

\* held: whether the caller keeps the returned handle
LiveCreate(name, level, redact, held) ==
    LET newLogger == [name |-> name, kind |-> "child",
                      level |-> OrElse(level, defaultLevel),
                      redact |-> RedactOpts(redact), parent |-> GlobalRoot]
    IN /\ manager = "live"
       /\ held => Cardinality(detached \cup {newLogger}) <= MaxDetached
       /\ detached' = IF held THEN detached \cup {newLogger} ELSE detached
       /\ last' = [op |-> "create", name |-> name, qname |-> name,
                   level |-> level, count |-> 0, wrote |-> 0,
                   info |-> [NoInfo EXCEPT !.redact = redact,
                                           !.handle = newLogger]]
       /\ UNCHANGED <<processVars, manager, defaultLevel, enablePackagePrefix,
                      levelMappings, loggers>>

\* bug: the production manager applies the level to the handles in use
LiveSetLevel_Mutating(name, level) ==
    /\ manager = "live"
    /\ detached' = {[h EXCEPT !.level = level] : h \in detached}
    /\ last' = [op |-> "setLevel", name |-> name, qname |-> NoName,
                level |-> level, count |-> 0, wrote |-> LiveWarn, info |-> NoInfo]
    /\ UNCHANGED <<processVars, manager, defaultLevel, enablePackagePrefix, levelMappings,
                   loggers>>

LiveSetLevel(name, level) ==
    /\ manager = "live"
    /\ last' = [op |-> "setLevel", name |-> name, qname |-> NoName,
                level |-> level, count |-> 0, wrote |-> LiveWarn, info |-> NoInfo]
    /\ UNCHANGED <<processVars, manager, defaultLevel, enablePackagePrefix, levelMappings,
                   loggers, detached>>

LiveAddLevelMapping(name, level) ==
    /\ manager = "live"
    /\ last' = [op |-> "addLevelMapping", name |-> name, qname |-> NoName,
                level |-> level, count |-> 0, wrote |-> LiveWarn, info |-> NoInfo]
    /\ UNCHANGED <<processVars, manager, defaultLevel, enablePackagePrefix, levelMappings,
                   loggers, detached>>

LiveSetChildrenLevel(name, level) ==
    /\ manager = "live"
    /\ last' = [op |-> "setChildrenLevel", name |-> name, qname |-> NoName,
                level |-> level, count |-> -1, wrote |-> LiveWarn, info |-> NoInfo]
    /\ UNCHANGED <<processVars, manager, defaultLevel, enablePackagePrefix, levelMappings,
                   loggers, detached>>

(* ---------------- LoggerFactory ---------------- *)
\* process.env.NODE_ENV = v, by any code of the process
setNodeEnv(v) ==
    /\ nodeEnv' = v
    /\ last' = [op |-> "setNodeEnv", name |-> NoName, qname |-> NoName,
                level |-> None, count |-> 0, wrote |-> 0, info |-> NoInfo]
    /\ UNCHANGED <<devMode, installed, enablePretty, manager, defaultLevel,
                   enablePackagePrefix, levelMappings, loggers, detached>>

\* a manager built by the caller, as new DevLoggerManager(level, ...) or
\* new LiveLoggerManager(level): its class and constructor arguments
NewManagers ==
    [kind : {"dev", "live"}, defaultLevel : {"info", "error"},
     enablePretty : {FALSE}, enablePackagePrefix : {FALSE}]

\* bug: the manager is installed without looking at NODE_ENV
setLoggerManager_Unguarded(m) ==
    /\ installed < MaxInstalls
    /\ installed' = installed + 1
    /\ manager' = m.kind
    /\ defaultLevel' = m.defaultLevel
    /\ enablePretty' = m.enablePretty
    /\ enablePackagePrefix' = m.enablePackagePrefix
    /\ levelMappings' = <<>>
    /\ loggers' = EmptyMap
    /\ last' = [op |-> "setLoggerManager", name |-> NoName, qname |-> NoName,
                level |-> None, count |-> 0, wrote |-> 0, info |-> NoInfo]
    /\ UNCHANGED <<nodeEnv, devMode, detached>>

\* LoggerFactory.setLoggerManager(m) with a manager just built: the calls
\* that follow go to m, to its empty table and empty mapping list
setLoggerManager(m) ==
    IF nodeEnv # "development"
    THEN /\ last' = [op |-> "setLoggerManager", name |-> NoName,
                     qname |-> NoName, level |-> None, count |-> 0, wrote |-> 0,
                     info |-> [NoInfo EXCEPT !.threw = TRUE]]
         /\ UNCHANGED <<processVars, manager, defaultLevel, enablePackagePrefix,
                        levelMappings, loggers, detached>>
    ELSE /\ installed < MaxInstalls
         /\ installed' = installed + 1
         /\ manager' = m.kind
         /\ defaultLevel' = m.defaultLevel
         /\ enablePretty' = m.enablePretty
         /\ enablePackagePrefix' = m.enablePackagePrefix
         /\ levelMappings' = <<>>
         /\ loggers' = EmptyMap
         /\ last' = [op |-> "setLoggerManager", name |-> NoName,
                     qname |-> NoName, level |-> None, count |-> 0, wrote |-> 0,
                     info |-> NoInfo]
         /\ UNCHANGED <<nodeEnv, devMode, detached>>

(* ---------------- PackageLoggers ---------------- *)
\* a call site's file name: null, or a directory (a path of segments from the
\* filesystem root) and a base name, possibly spelled as a file:// URL
NoFile == [has |-> FALSE, url |-> FALSE, dir |-> <<>>, base |-> <<>>]
FileAt(dir, base) == [has |-> TRUE, url |-> FALSE, dir |-> dir, base |-> base]
UrlAt(dir, base) == [has |-> TRUE, url |-> TRUE, dir |-> dir, base |-> base]

LoggerFactoryTs ==
    <<"L", "o", "g", "g", "e", "r", "F", "a", "c", "t", "o", "r", "y", ".", "t", "s">>
PackageLoggersTs == <<"P", "L", ".", "t", "s">>
AppTs == <<"f", ".", "t", "s">>
LibDir == <<"l">>

\* the call sites below the caller of LoggerFactory.create, innermost first
LibraryFrames ==
    <<[fn |-> "getCallerFile", file |-> FileAt(LibDir, PackageLoggersTs)],
      [fn |-> "getLoggerPackage", file |-> FileAt(LibDir, PackageLoggersTs)],
      [fn |-> "getOrCreatePackageLogger", file |-> FileAt(LibDir, LoggerFactoryTs)],
      [fn |-> "create", file |-> FileAt(LibDir, LoggerFactoryTs)],
      [fn |-> "create", file |-> FileAt(LibDir, LoggerFactoryTs)]>>

\* the directories that hold a package.json, with what reading it gives:
\* /w/p is package p, /w/q is package @s/p, /w/u has a manifest that does not
\* parse, /w/n has one without a name, /w/e has the name '', and the
\* filesystem root has one too
Manifests ==
    (<<"w", "p">> :> [readable |-> TRUE, named |-> TRUE, name |-> N_p]) @@
    (<<"w", "q">> :> [readable |-> TRUE, named |-> TRUE, name |-> N_scoped]) @@
    (<<"w", "u">> :> [readable |-> FALSE, named |-> FALSE, name |-> NoName]) @@
    (<<"w", "n">> :> [readable |-> TRUE, named |-> FALSE, name |-> NoName]) @@
    (<<"w", "e">> :> [readable |-> TRUE, named |-> TRUE, name |-> NoName]) @@
    (<<>> :> [readable |-> TRUE, named |-> TRUE, name |-> <<"r">>])

\* the callers of LoggerFactory.create, innermost first: a file of package p,
\* one below it in a subdirectory, one given as a URL, one of package @s/p,
\* files next to the three other manifests, a file with no manifest above it
\* but the root's, a caller without a file name, no caller at all, and a
\* caller named create without a file name
CallerStacks ==
    {<<[fn |-> "main", file |-> FileAt(<<"w", "p">>, AppTs)]>>,
     <<[fn |-> "create", file |-> FileAt(<<"w", "p", "s">>, AppTs)]>>,
     <<[fn |-> "main", file |-> UrlAt(<<"w", "p">>, AppTs)]>>,
     <<[fn |-> "main", file |-> FileAt(<<"w", "q">>, AppTs)]>>,
     <<[fn |-> "main", file |-> FileAt(<<"w", "u">>, AppTs)]>>,
     <<[fn |-> "main", file |-> FileAt(<<"w", "n">>, AppTs)]>>,
     <<[fn |-> "main", file |-> FileAt(<<"w", "e">>, AppTs)]>>,
     <<[fn |-> "main", file |-> FileAt(<<"t">>, AppTs)]>>,
     <<[fn |-> "main", file |-> NoFile]>>,
     <<>>,
     <<[fn |-> "create", file |-> NoFile]>>}

\* Error.stackTraceLimit: the number of innermost call sites err.stack holds
StackLimits == {0, 10}

\* err.stack under prepareStackTrace = (_, stack) => stack
StackOf(callers, limit) ==
    LET all == LibraryFrames \o callers
    IN SubSeq(all, 1, IF limit < Len(all) THEN limit ELSE Len(all))

Reverse(s) == [i \in 1..Len(s) |-> s[Len(s) + 1 - i]]

\* the findIndex callback on a call site that has a file name
IsFactoryCreate(e) ==
    e.fn = "create" /\ e.file.has /\ EndsWith(e.file.base, LoggerFactoryTs)

\* the findIndex callback on a call site named create whose getFileName()
\* is null: null.endsWith(...) is a TypeError
CallbackThrows(e) == e.fn = "create" /\ ~e.file.has

\* results of the resolver's steps
ThrewFile == [threw |-> TRUE, file |-> NoFile]
UndefinedFile == [threw |-> FALSE, file |-> NoFile]

getCallerFile(stack) ==
    LET r == Reverse(stack)
        hits == {i \in 1..Len(r) : IsFactoryCreate(r[i])}
        \* findIndex + 1, or 0 when findIndex gives -1
        hit == IF hits = {} THEN 0
               ELSE CHOOSE i \in hits : \A j \in hits : i <= j
        scanned == IF hit = 0 THEN 1..Len(r) ELSE 1..(hit - 1)
    IN IF \E i \in scanned : CallbackThrows(r[i]) THEN ThrewFile
       ELSE IF hit <= 1 THEN UndefinedFile
       ELSE IF ~r[hit - 1].file.has THEN UndefinedFile
       ELSE [threw |-> FALSE,
             file |-> FileAt(r[hit - 1].file.dir, r[hit - 1].file.base)]

\* the loop of findPackageRoot from dir; <<>> is the filesystem root, the one
\* directory that is its own dirname
RECURSIVE WalkUp(_)
WalkUp(dir) ==
    IF dir = <<>> THEN [found |-> FALSE, dir |-> <<>>]
    ELSE IF dir \in DOMAIN Manifests THEN [found |-> TRUE, dir |-> dir]
    ELSE WalkUp(DropLast(dir))

findPackageRoot(file) == WalkUp(file.dir)

\* path.basename of a directory, as a name
Basename(dir) == <<dir[Len(dir)]>>

getLoggerPackage(stack) ==
    LET got == getCallerFile(stack)
        pkgRoot == findPackageRoot(got.file)
    IN IF got.threw THEN [threw |-> TRUE, name |-> NoName]
       ELSE IF ~got.file.has THEN [threw |-> FALSE, name |-> NoName]
       ELSE IF ~pkgRoot.found THEN [threw |-> FALSE, name |-> NoName]
       ELSE IF Manifests[pkgRoot.dir].readable /\ Manifests[pkgRoot.dir].named
       THEN [threw |-> FALSE, name |-> Manifests[pkgRoot.dir].name]
       ELSE [threw |-> FALSE, name |-> Basename(pkgRoot.dir)]

\* the files findPackageRoot is started from: in a subdirectory of package p,
\* in its directory, next to the manifest that does not parse, in /w and in
\* /t, which have no manifest, and in the filesystem root
StartFiles ==
    {FileAt(<<"w", "p", "s">>, AppTs), FileAt(<<"w", "p">>, AppTs),
     FileAt(<<"w", "u">>, AppTs), FileAt(<<"w">>, AppTs),
     FileAt(<<"t">>, AppTs), FileAt(<<>>, AppTs)}

\* findPackageRoot(startPath) on its own; the record of the call holds the
\* directory of startPath as name, the directory returned as qname, and 1 or
\* 0 as count for a directory or undefined
findPackageRootCall(file) ==
    /\ last' = [op |-> "findPackageRoot", name |-> file.dir,
                qname |-> findPackageRoot(file).dir, level |-> None,
                count |-> IF findPackageRoot(file).found THEN 1 ELSE 0,
                wrote |-> 0, info |-> NoInfo]
    /\ UNCHANGED <<processVars, manager, defaultLevel, enablePackagePrefix,
                   levelMappings, loggers, detached>>

\* create called from a call stack: under LOG_PACKAGE the resolver reads the
\* stack, and what it throws leaves create before anything is registered
createAt(callers, limit, name, level, redact) ==
    LET pkg == getLoggerPackage(StackOf(callers, limit))
    IN IF enablePackagePrefix /\ pkg.threw
       THEN /\ manager = "dev"
            /\ last' = [op |-> "create", name |-> name, qname |-> NoName,
                        level |-> level, count |-> 0, wrote |-> 0,
                        info |-> [NoInfo EXCEPT !.threw = TRUE, !.runs = 1,
                                                !.redact = redact]]
            /\ UNCHANGED <<processVars, manager, defaultLevel,
                           enablePackagePrefix, levelMappings, loggers, detached>>
       ELSE create(IF enablePackagePrefix THEN pkg.name ELSE NoName,
                   name, level, redact, FALSE)

(* ---------------- PinoLogger ---------------- *)
\* the emit methods of the Logger interface
EmitSeverities == {"trace", "debug", "info", "warn", "error"}

\* the handles a caller can hold: those create returned and registered, and
\* those it returned earlier that the table no longer holds
HeldHandles == {loggers[n] : n \in {k \in DOMAIN loggers : loggers[k].kind = "child"}}
               \cup detached

\* records that reach the destination when the sink h is given one record of
\* this severity: the sink drops it below its own level, and the pretty
\* transport of the development manager, built with minimumLevel:
\* defaultLevel, hides what is below the default level
Written(h, severity) ==
    IF /\ Emits(h.level, severity)
       /\ (manager = "dev" /\ enablePretty) => Emits(defaultLevel, severity)
    THEN 1 ELSE 0

\* handle.trace / debug / info / warn / error
emit(h, severity) ==
    /\ h \in HeldHandles
    /\ last' = [op |-> "emit", name |-> h.name, qname |-> NoName,
                level |-> severity, count |-> 0, wrote |-> Written(h, severity),
                info |-> [NoInfo EXCEPT !.handle = h]]
    /\ UNCHANGED <<processVars, manager, defaultLevel, enablePackagePrefix,
                   levelMappings, loggers, detached>>

\* handle.flush()
flush(h) ==
    /\ h \in HeldHandles
    /\ last' = [op |-> "flush", name |-> h.name, qname |-> NoName,
                level |-> None, count |-> 0, wrote |-> 0,
                info |-> [NoInfo EXCEPT !.handle = h]]
    /\ UNCHANGED <<processVars, manager, defaultLevel, enablePackagePrefix,
                   levelMappings, loggers, detached>>

(* ---------------- specifications ---------------- *)
\* the development manager as LoggerFactory.createManager builds it
Init ==
    /\ nodeEnv = "development"
    /\ devMode = TRUE
    /\ installed = 0
    /\ enablePretty = TRUE
    /\ manager = "dev"
    /\ defaultLevel \in {"info", "debug"}
    /\ enablePackagePrefix \in BOOLEAN
    /\ levelMappings = <<>>
    /\ loggers = EmptyMap
    /\ detached = {}
    /\ last = NoCall

\* creation and mapping lookup, with a few level changes in between
Next ==
    \/ \E c \in CreateCalls, l \in {None, "error"} :
          create(c[1], c[2], l, c[3], FALSE)
    \/ \E n \in {N_pa} : setLevel(n, "warn")
    \/ \E n \in {N_p} : setChildrenLevel(n, "error")
    \/ \E m \in MappingCalls : addLevelMapping(m[1], m[2])

Spec == Init /\ [][Next]_vars

\* level changes on existing loggers, with every spelling of a name
InitCascade == Init /\ defaultLevel = "info"

NextCascade ==
    \/ \E c \in CreateCalls : create(c[1], c[2], None, c[3], FALSE)
    \/ \E n \in SetLevelNames, l \in InputLevels : setLevel(n, l)
    \/ \E n \in SetChildrenNames, l \in InputLevels : setChildrenLevel(n, l)
    \/ \E m \in {<<N_pstar, "warn">>, <<N_pa, "error">>} :
          addLevelMapping(m[1], m[2])

SpecCascade == InitCascade /\ [][NextCascade]_vars

\* the production manager as LoggerFactory.createManager builds it
InitLive ==
    /\ nodeEnv = "production"
    /\ devMode = FALSE
    /\ installed = 0
    /\ enablePretty = FALSE
    /\ manager = "live"
    /\ defaultLevel \in Levels
    /\ enablePackagePrefix = FALSE
    /\ levelMappings = <<>>
    /\ loggers = EmptyMap
    /\ detached = {}
    /\ last = NoCall

NextLive ==
    \/ \E n \in {N_a, N_pa}, l \in InputLevels \cup {None}, h \in BOOLEAN :
          LiveCreate(n, l, NoRedact, h)
    \/ \E n \in {N_pa, N_pstar}, l \in InputLevels : LiveSetLevel(n, l)
    \/ \E n \in {N_pa, N_pstar}, l \in InputLevels : LiveAddLevelMapping(n, l)
    \/ \E n \in {N_p, N_pstar}, l \in InputLevels : LiveSetChildrenLevel(n, l)

SpecLive == InitLive /\ [][NextLive]_vars

\* handles in use: a name created again while the first handle is still
\* held, level changes, and emits on both handles
InitHandles ==
    /\ nodeEnv = "development"
    /\ devMode = TRUE
    /\ installed = 0
    /\ enablePretty \in BOOLEAN
    /\ manager = "dev"
    /\ defaultLevel \in {"info", "debug"}
    /\ enablePackagePrefix = FALSE
    /\ levelMappings = <<>>
    /\ loggers = EmptyMap
    /\ detached = {}
    /\ last = NoCall

NextHandles ==
    \/ \E l \in {None, "debug", "error"}, k \in BOOLEAN :
          create(NoName, N_pa, l, NoRedact, k)
    \/ create(NoName, N_pxa, None, NoRedact, FALSE)
    \/ \E l \in {"debug", "warn"} : setLevel(N_pa, l)
    \/ setChildrenLevel(N_p, "error")
    \/ \E m \in {<<N_pstar, "warn">>, <<N_pa, "error">>} :
          addLevelMapping(m[1], m[2])
    \/ \E h \in HeldHandles, s \in {"debug", "info", "warn"} : emit(h, s)
    \/ \E h \in HeldHandles : flush(h)

SpecHandles == InitHandles /\ [][NextHandles]_vars

\* creation from call stacks: the namespace resolver and the package roots
InitNamespace == Init /\ defaultLevel = "info"

NextNamespace ==
    \/ \E c \in CallerStacks, n \in {N_a, N_p} :
          createAt(c, 10, n, None, NoRedact)
    \/ \E k \in StackLimits :
          createAt(<<[fn |-> "main", file |-> FileAt(<<"w", "p">>, AppTs)]>>,
                   k, N_a, "error", KeyRedact)
    \/ setLevel(N_p, "warn")
    \/ setChildrenLevel(N_p, "error")
    \/ addLevelMapping(N_pstar, "warn")

SpecNamespace == InitNamespace /\ [][NextNamespace]_vars

\* the factory from the load of the module on: createManager picks the
\* manager from NODE_ENV as it is then, and NODE_ENV may change afterwards
InitFactory ==
    /\ nodeEnv \in {"development", "production"}
    /\ devMode = (nodeEnv = "development")
    /\ installed = 0
    /\ enablePretty = devMode
    /\ manager = IF devMode THEN "dev" ELSE "live"
    /\ defaultLevel \in {"info", "warn"}
    /\ enablePackagePrefix = FALSE
    /\ levelMappings = <<>>
    /\ loggers = EmptyMap
    /\ detached = {}
    /\ last = NoCall

NextFactory ==
    \/ \E v \in {"development", "production"} : setNodeEnv(v)
    \/ \E m \in NewManagers : setLoggerManager(m)
    \/ \E l \in {None, "error"} : create(NoName, N_pa, l, NoRedact, FALSE)
    \/ setLevel(N_pa, "warn")
    \/ addLevelMapping(N_pstar, "warn")
    \/ LiveCreate(N_pa, None, NoRedact, TRUE)
    \/ LiveSetLevel(N_pa, "warn")

SpecFactory == InitFactory /\ [][NextFactory]_vars

\* the namespace resolver step by step, and creates that go through it
InitResolver == Init /\ defaultLevel = "info" /\ enablePackagePrefix = TRUE

NextResolver ==
    \/ \E f \in StartFiles : findPackageRootCall(f)
    \/ \E c \in CallerStacks, n \in {N_a, N_p} :
          createAt(c, 10, n, None, NoRedact)

SpecResolver == InitResolver /\ [][NextResolver]_vars

\* mappings registered twice and in both kinds, and creates that look them up
InitLookup == Init /\ defaultLevel = "info" /\ enablePackagePrefix = FALSE

NextLookup ==
    \/ \E n \in {N_pa, N_pab} : create(NoName, n, None, NoRedact, FALSE)
    \/ \E m \in MappingCalls : addLevelMapping(m[1], m[2])

SpecLookup == InitLookup /\ [][NextLookup]_vars

\* level calls after creates with and without opts.level; the create of p/a
\* is the one given opts.level, and it alone is given opts.redact, so that
\* the handle of a logger created with opts.level can be told from the others
InitSticky == Init /\ defaultLevel = "info" /\ enablePackagePrefix = FALSE

NextSticky ==
    \/ create(NoName, N_pa, "debug", KeyRedact, FALSE)
    \/ \E n \in {N_pab, N_pxa} : create(NoName, n, None, NoRedact, FALSE)
    \/ \E n \in {N_pa, N_pstar}, l \in InputLevels : setLevel(n, l)
    \/ \E l \in InputLevels : setChildrenLevel(N_p, l)
    \/ \E m \in {<<N_pstar, "warn">>, <<N_pa, "error">>} :
          addLevelMapping(m[1], m[2])

SpecSticky == InitSticky /\ [][NextSticky]_vars

(* ---------------- vocabulary of the properties ---------------- *)
IsPrefixPattern(p) == Len(p) >= 2 /\ p[Len(p) - 1] = "/" /\ p[Len(p)] = "*"

\* "prefix/" of the pattern "prefix/*"
PrefixOf(p) == [i \in 1..(Len(p) - 1) |-> p[i]]

Under(n, pre) == Len(n) >= Len(pre) /\ \A i \in 1..Len(pre) : n[i] = pre[i]

\* mapping e applies to the qualified name n, exactly or as a prefix
Covers(e, n) ==
    IF IsPrefixPattern(e.name) THEN Under(n, PrefixOf(e.name)) ELSE e.name = n

MappingIdx == 1..Len(levelMappings)

\* a mapping registered before the i-th one applies to n as well
Shadowed(i, n) == \E j \in 1..(i - 1) : Covers(levelMappings[j], n)

\* the last call was a create without opts.level
CreatedPlain == last.op = "create" /\ last.level = None

\* level of the logger the last create registered
CreatedLevel == loggers[last.qname].level

(* ---------------- C1 ---------------- *)
\* C1: create gives the new logger opts.level whenever it is supplied, whatever
\* mappings are registered for the qualified name; without opts.level and
\* without a matching mapping the logger gets the process default level.
C1_ExplicitThenDefault ==
    last.op = "create" =>
        /\ last.level # None => CreatedLevel = last.level
        /\ (last.level = None
               /\ \A i \in MappingIdx : ~Covers(levelMappings[i], last.qname))
            => CreatedLevel = defaultLevel

C1_Witness ==
    /\ last.op = "create"
    /\ last.level # None
    /\ \E i \in MappingIdx :
          /\ Covers(levelMappings[i], last.qname)
          /\ levelMappings[i].level # last.level
    /\ CreatedLevel = last.level

(* ---------------- C2 ---------------- *)
ExactAndPrefixRegistered ==
    /\ \E i \in MappingIdx : levelMappings[i].name = last.qname
    /\ \E j \in MappingIdx : /\ IsPrefixPattern(levelMappings[j].name)
                              /\ Covers(levelMappings[j], last.qname)

\* C2 as stated: with an exact and a matching prefix mapping registered in any
\* order, a logger created without opts.level gets the exact mapping's level.
C2_ExactBeatsPrefix ==
    (CreatedPlain /\ ExactAndPrefixRegistered) =>
        \E i \in MappingIdx : /\ levelMappings[i].name = last.qname
                              /\ CreatedLevel = levelMappings[i].level

\* C2 amended: with an exact and a matching prefix mapping registered, a
\* logger created without opts.level gets the exact mapping's level when no
\* matching mapping was registered before the exact one.
C2_ExactFirstWins ==
    (CreatedPlain /\ ExactAndPrefixRegistered) =>
        \A i \in MappingIdx :
            (levelMappings[i].name = last.qname /\ ~Shadowed(i, last.qname))
                => CreatedLevel = levelMappings[i].level

C2_Witness ==
    /\ CreatedPlain
    /\ Len(levelMappings) >= 2
    /\ levelMappings[1].name = last.qname
    /\ \E j \in MappingIdx : /\ IsPrefixPattern(levelMappings[j].name)
                              /\ Covers(levelMappings[j], last.qname)
                              /\ levelMappings[j].level # levelMappings[1].level
    /\ CreatedLevel = levelMappings[1].level

(* ---------------- C3 ---------------- *)
MatchingPrefixes ==
    {i \in MappingIdx : /\ IsPrefixPattern(levelMappings[i].name)
                        /\ Covers(levelMappings[i], last.qname)}

SeveralPrefixesOnly ==
    /\ CreatedPlain
    /\ Cardinality(MatchingPrefixes) >= 2
    /\ \A i \in MappingIdx : levelMappings[i].name # last.qname

\* C3 as stated: among several matching prefix mappings the most recently
\* registered one decides the level of the created logger.
C3_LatestPrefixWins ==
    SeveralPrefixesOnly =>
        \A i \in MatchingPrefixes :
            (\A j \in MatchingPrefixes : j <= i)
                => CreatedLevel = levelMappings[i].level

\* C3 amended: among several matching prefix mappings the earliest registered
\* one decides the level of the created logger.
C3_EarliestPrefixWins ==
    SeveralPrefixesOnly =>
        \A i \in MatchingPrefixes :
            (\A j \in MatchingPrefixes : i <= j)
                => CreatedLevel = levelMappings[i].level

C3_Witness ==
    /\ SeveralPrefixesOnly
    /\ \E i, j \in MatchingPrefixes :
          /\ i < j
          /\ levelMappings[i].name # levelMappings[j].name
          /\ levelMappings[i].level # levelMappings[j].level
          /\ CreatedLevel = levelMappings[i].level

(* ---------------- C4 ---------------- *)
\* C4 as stated: every registered exact mapping (name, level) gives its level
\* to a logger created later under that name without opts.level.
C4_EveryExactMappingApplies ==
    CreatedPlain =>
        \A i \in MappingIdx :
            levelMappings[i].name = last.qname
                => CreatedLevel = levelMappings[i].level

\* C4 amended: a registered exact mapping gives its level to a logger created
\* later under that name without opts.level, unless a mapping registered
\* before it matches the name as well.
C4_UnshadowedExactMappingApplies ==
    CreatedPlain =>
        \A i \in MappingIdx :
            (levelMappings[i].name = last.qname /\ ~Shadowed(i, last.qname))
                => CreatedLevel = levelMappings[i].level

C4_Witness ==
    /\ CreatedPlain
    /\ \E i \in MappingIdx :
          /\ levelMappings[i].name = last.qname
          /\ ~Shadowed(i, last.qname)
          /\ levelMappings[i].level # defaultLevel
          /\ CreatedLevel = levelMappings[i].level
    /\ \E n \in DOMAIN loggers : n # last.qname

(* ---------------- C5 ---------------- *)
\* right after addLevelMapping(prefix/*, level) every registered logger under
\* prefix/ has that level
CascadeApplied ==
    (last.op = "addLevelMapping" /\ IsPrefixPattern(last.name)) =>
        \A n \in DOMAIN loggers :
            Under(n, PrefixOf(last.name)) => loggers[n].level = last.level

\* C5 as stated: loggers under prefix/ created before the registration get
\* the level through the cascade, those created after it (without opts.level)
\* through the lookup, for every registered prefix mapping.
C5_EveryPrefixMappingApplies ==
    /\ CascadeApplied
    /\ CreatedPlain =>
          \A i \in MappingIdx :
              (IsPrefixPattern(levelMappings[i].name)
                 /\ Under(last.qname, PrefixOf(levelMappings[i].name)))
                  => CreatedLevel = levelMappings[i].level

\* C5 amended: as stated, except that a logger created after the registration
\* gets the level only if no mapping registered earlier matches its name.
C5_UnshadowedPrefixMappingApplies ==
    /\ CascadeApplied
    /\ CreatedPlain =>
          \A i \in MappingIdx :
              (IsPrefixPattern(levelMappings[i].name)
                 /\ Under(last.qname, PrefixOf(levelMappings[i].name))
                 /\ ~Shadowed(i, last.qname))
                  => CreatedLevel = levelMappings[i].level

C5_Witness ==
    /\ CreatedPlain
    /\ \E i \in MappingIdx :
          /\ IsPrefixPattern(levelMappings[i].name)
          /\ Under(last.qname, PrefixOf(levelMappings[i].name))
          /\ ~Shadowed(i, last.qname)
          /\ levelMappings[i].level # defaultLevel
          /\ CreatedLevel = levelMappings[i].level
          /\ \E n \in DOMAIN loggers :
                /\ n # last.qname
                /\ Under(n, PrefixOf(levelMappings[i].name))
                /\ loggers[n].level = levelMappings[i].level

(* ---------------- C6 ---------------- *)
\* the spelling-independent prefix "p/" of p, p/ and p/*
NormalPrefix(name) ==
    IF IsPrefixPattern(name) THEN PrefixOf(name)
    ELSE IF Len(name) >= 1 /\ name[Len(name)] = "/" THEN name
    ELSE name \o <<"/">>

\* C6: setChildrenLevel(prefix, level) sets the level of every registered
\* logger whose qualified name starts with the normalized prefix, leaves every
\* other logger as it was, and returns the number of loggers it set.
C6_SetChildrenLevelFrame ==
    [][last'.op = "setChildrenLevel" =>
        /\ DOMAIN loggers' = DOMAIN loggers
        /\ \A n \in DOMAIN loggers :
              IF Under(n, NormalPrefix(last'.name))
              THEN loggers'[n] = [loggers[n] EXCEPT !.level = last'.level]
              ELSE loggers'[n] = loggers[n]
        /\ last'.count =
              Cardinality({n \in DOMAIN loggers :
                              Under(n, NormalPrefix(last'.name))})
        /\ levelMappings' = levelMappings]_vars

C6_Witness ==
    /\ last.op = "setChildrenLevel"
    /\ last.count = 2
    /\ \A n \in DOMAIN loggers :
          Under(n, NormalPrefix(last.name)) => loggers[n].level = last.level
    /\ \E n \in DOMAIN loggers :
          /\ ~Under(n, NormalPrefix(last.name))
          /\ loggers[n].level # last.level

(* ---------------- C7 ---------------- *)
\* C7: setLevel and addLevelMapping with a non-prefix name set the level of
\* the one registered logger of exactly that name and change no other logger;
\* without such a logger nothing changes. setLevel with a prefix pattern does
\* to the table what setChildrenLevel does with that pattern.
C7_SetLevelFrame ==
    [][/\ (last'.op \in {"setLevel", "addLevelMapping"}
              /\ ~IsPrefixPattern(last'.name)) =>
            /\ DOMAIN loggers' = DOMAIN loggers
            /\ \A n \in DOMAIN loggers :
                  IF n = last'.name
                  THEN loggers'[n] = [loggers[n] EXCEPT !.level = last'.level]
                  ELSE loggers'[n] = loggers[n]
       /\ (last'.op = "setLevel" /\ IsPrefixPattern(last'.name)) =>
            loggers' = ChildrenSet(last'.name, last'.level)]_vars

C7_Witness ==
    /\ last.op = "setLevel"
    /\ ~IsPrefixPattern(last.name)
    /\ last.name \in DOMAIN loggers
    /\ loggers[last.name].level = last.level
    /\ \E n \in DOMAIN loggers :
          Under(n, NormalPrefix(last.name)) /\ loggers[n].level # last.level

(* ---------------- C8 ---------------- *)
\* addLevelMapping(p, level) with a prefix pattern leaves the table that
\* setChildrenLevel(p, level) leaves from the same state, and appends the rule
CascadeAsSetChildrenLevel ==
    (last'.op = "addLevelMapping" /\ IsPrefixPattern(last'.name)) =>
        /\ loggers' = ChildrenSet(last'.name, last'.level)
        /\ levelMappings' =
              Append(levelMappings, [name |-> last'.name, level |-> last'.level])

\* C8 as stated: addLevelMapping with a prefix pattern and setChildrenLevel
\* leave the registered loggers alike, and loggers created later under the
\* prefix get the level of the rule.
C8_CascadeAndRule ==
    [][/\ CascadeAsSetChildrenLevel
       /\ (last'.op = "create" /\ last'.level = None) =>
            \A i \in 1..Len(levelMappings') :
                (IsPrefixPattern(levelMappings'[i].name)
                   /\ Under(last'.qname, PrefixOf(levelMappings'[i].name)))
                    => loggers'[last'.qname].level = levelMappings'[i].level]_vars

\* C8 amended: as stated, except that a logger created later under the prefix
\* (without opts.level) gets the level of the rule only if no mapping
\* registered before the rule matches its name.
C8_CascadeAndUnshadowedRule ==
    [][/\ CascadeAsSetChildrenLevel
       /\ (last'.op = "create" /\ last'.level = None) =>
            \A i \in 1..Len(levelMappings') :
                (IsPrefixPattern(levelMappings'[i].name)
                   /\ Under(last'.qname, PrefixOf(levelMappings'[i].name))
                   /\ \A j \in 1..(i - 1) :
                         ~Covers(levelMappings'[j], last'.qname))
                    => loggers'[last'.qname].level = levelMappings'[i].level]_vars

C8_Witness ==
    /\ last.op = "addLevelMapping"
    /\ IsPrefixPattern(last.name)
    /\ levelMappings[Len(levelMappings)] =
          [name |-> last.name, level |-> last.level]
    /\ Cardinality({n \in DOMAIN loggers :
                       /\ Under(n, PrefixOf(last.name))
                       /\ loggers[n].level = last.level}) >= 2
    /\ \E n \in DOMAIN loggers :
          ~Under(n, PrefixOf(last.name)) /\ loggers[n].level # last.level

(* ---------------- C9 ---------------- *)
LiveMutations == {"setLevel", "addLevelMapping", "setChildrenLevel"}

\* C9: in the production manager addLevelMapping, setLevel and
\* setChildrenLevel leave the manager and every logger in use as they were, so
\* that later creates resolve their level as before; setChildrenLevel
\* returns -1.
C9_LiveMutationsChangeNothing ==
    [][(manager = "live" /\ last'.op \in LiveMutations) =>
        /\ detached' = detached
        /\ defaultLevel' = defaultLevel
        /\ levelMappings' = levelMappings
        /\ loggers' = loggers
        /\ manager' = manager
        /\ last'.op = "setChildrenLevel" => last'.count = -1]_vars

C9_Witness ==
    /\ manager = "live"
    /\ last.op = "setChildrenLevel"
    /\ last.count = -1
    /\ \E h \in detached : h.level # last.level

(* ---------------- C10 ---------------- *)
\* C10 as stated: every setLevel, addLevelMapping or setChildrenLevel call on
\* the production manager writes exactly one warning record, whatever the
\* configured default severity.
C10_AlwaysOneWarning ==
    (manager = "live" /\ last.op \in LiveMutations) => last.wrote = 1

\* C10 amended: such a call writes exactly one warning record when the
\* configured default severity is warn or lower, and none when it is error or
\* fatal.
C10_OneWarningUnlessFiltered ==
    (manager = "live" /\ last.op \in LiveMutations) =>
        last.wrote = (IF defaultLevel \in {"trace", "debug", "info", "warn"}
                      THEN 1 ELSE 0)

C10_Witness ==
    /\ manager = "live"
    /\ last.op = "addLevelMapping"
    /\ defaultLevel = "warn"
    /\ last.wrote = 1

(* ---------------- C11 ---------------- *)
\* C11: the table holds one entry per qualified name, each under its own
\* name; creating a name that is already registered replaces its entry by the
\* handle this create returns and adds none, and a later setLevel on the name
\* changes that newest handle and not the replaced one.
C11_ReplacedEntryIsNewest ==
    [][/\ \A k \in DOMAIN loggers' : loggers'[k].name = k
       /\ last'.op = "create" =>
             /\ loggers'[last'.qname] = last'.info.handle
             /\ last'.qname \in DOMAIN loggers => DOMAIN loggers' = DOMAIN loggers
       /\ (last'.op = "setLevel" /\ last'.name \in DOMAIN loggers) =>
             /\ loggers'[last'.name].level = last'.level
             /\ detached' = detached]_vars

\* a setLevel after a re-creation: the replaced handle is still held at its
\* old level, the registered one has the new level
C11_Witness ==
    /\ last.op = "setLevel"
    /\ last.name \in DOMAIN loggers
    /\ loggers[last.name].level = last.level
    /\ \E h \in detached : h.name = last.name /\ h.level # last.level

(* ---------------- C12 ---------------- *)
\* C12: in every reachable state every logger of the table, package roots
\* included, and every handle still held has a level, and that level is one
\* of the severities.
C12_EveryLoggerHasALevel ==
    /\ \A k \in DOMAIN loggers : loggers[k].level \in Levels
    /\ \A h \in detached : h.level \in Levels

\* a package root next to a logger that got the default level, after a level
\* operation
C12_Witness ==
    /\ last.op \in {"setLevel", "setChildrenLevel", "addLevelMapping"}
    /\ \E k \in DOMAIN loggers : loggers[k].kind = "root"
    /\ \E k \in DOMAIN loggers :
          /\ loggers[k].kind = "child"
          /\ loggers[k].level = defaultLevel
          /\ \A i \in MappingIdx : ~Covers(levelMappings[i], k)

(* ---------------- C13 ---------------- *)
\* C13: an emit on a handle writes no record when its severity is below the
\* level the handle has at that moment, and exactly one record when it is at
\* or above it.
C13_ThresholdDecidesOutput ==
    last.op = "emit" =>
        last.wrote = IF LevelVal[last.level] >= LevelVal[last.info.handle.level]
                     THEN 1 ELSE 0

(* ---------------- C14 ---------------- *)
\* C14: the logger a create returns and registers has the paths of opts.redact
\* as given, with remove semantics, or no redaction at all when opts.redact is
\* absent; and no step changes the redaction of a logger already in the table,
\* short of a create that replaces the logger itself.
C14_RedactPassedAndFrozen ==
    [][/\ (last'.op = "create" /\ ~last'.info.threw) =>
             /\ loggers'[last'.qname].redact =
                    IF last'.info.redact.given
                    THEN [set |-> TRUE, paths |-> last'.info.redact.paths,
                          remove |-> TRUE]
                    ELSE [set |-> FALSE, paths |-> <<>>, remove |-> FALSE]
       /\ \A k \in DOMAIN loggers :
             (last'.op # "create" \/ k # last'.qname) =>
                 loggers'[k].redact = loggers[k].redact]_vars

\* a level operation has just re-levelled a logger that was created with
\* redaction paths, and the paths are still there
C14_Witness ==
    /\ last.op \in {"setChildrenLevel", "addLevelMapping"}
    /\ \E k \in DOMAIN loggers :
          /\ loggers[k].redact = [set |-> TRUE, paths |-> <<"key">>, remove |-> TRUE]
          /\ loggers[k].level = last.level

(* ---------------- C15 ---------------- *)
\* a setLoggerManager call installs the manager when NODE_ENV is development
\* at the call, and otherwise throws and changes nothing
GuardedInstall ==
    last'.op = "setLoggerManager" =>
        IF nodeEnv = "development"
        THEN installed' = installed + 1 /\ ~last'.info.threw
        ELSE /\ last'.info.threw
             /\ UNCHANGED <<installed, manager, defaultLevel, enablePretty,
                            enablePackagePrefix, levelMappings, loggers>>

\* C15 as stated: setLoggerManager installs only in development mode, throws
\* and changes nothing otherwise, and so the manager of a process that
\* started outside development mode is never replaced.
C15_ProductionNeverReplaced ==
    [][GuardedInstall /\ (~devMode => installed' = installed)]_vars

\* C15, amended: setLoggerManager installs only when NODE_ENV is development
\* at the time of the call, throws and changes nothing otherwise, and no
\* other step replaces the manager; the mode the process started in plays no
\* part.
C15_InstallOnlyWhileDevelopment ==
    [][/\ GuardedInstall
       /\ installed' # installed =>
             last'.op = "setLoggerManager" /\ nodeEnv = "development"
       /\ last'.op # "setLoggerManager" => manager' = manager]_vars

\* a process started outside development mode: its manager was replaced once
\* NODE_ENV had become development, and a later attempt was refused
C15_Witness ==
    /\ ~devMode
    /\ installed = 1
    /\ last.op = "setLoggerManager"
    /\ last.info.threw

(* ---------------- C16 ---------------- *)
\* C16 as stated, for two creates in a row from one package: the second one
\* does not run the namespace resolver.
C16_ResolverRunsOncePerPackage ==
    [][(/\ last.op = "create"
        /\ last.info.caller # NoName
        /\ last'.op = "create"
        /\ last'.info.caller = last.info.caller) => last'.info.runs = 0]_vars

\* C16, amended: every create runs the resolver once when auto-prefixing is
\* enabled and never when it is disabled; what is kept per package is the
\* root sink, which a create from the package leaves as it is once the table
\* has an entry under the package's name.
C16_ResolverRunsOnEveryCreate ==
    [][last'.op = "create" =>
          /\ last'.info.runs = IF enablePackagePrefix THEN 1 ELSE 0
          /\ \A k \in DOMAIN loggers :
                k # last'.qname => loggers'[k] = loggers[k]]_vars

\* a further create from a package whose root sink was re-levelled in
\* between: the resolver ran, and the root sink is the one from before
C16_Witness ==
    /\ last.op = "create"
    /\ last.info.caller # NoName
    /\ last.info.runs = 1
    /\ PackageKey(last.info.caller) \in DOMAIN loggers
    /\ loggers[PackageKey(last.info.caller)].kind = "root"
    /\ loggers[PackageKey(last.info.caller)].level = "warn"
    /\ \E k \in DOMAIN loggers :
          /\ k # last.qname
          /\ loggers[k].parent = <<PackageKey(last.info.caller), "root">>

(* ---------------- C17 ---------------- *)
\* the namespace a registered logger was created in: the name of the sink it
\* is a child of, when that is not the global root
InNamespace(k) == loggers[k].kind = "child" /\ loggers[k].parent # GlobalRoot

\* C17: the parent of every logger created from a package is a root sink, and
\* two loggers created in the same namespace have the same parent.
C17_OneRootSinkPerPackage ==
    /\ \A k \in DOMAIN loggers : InNamespace(k) => loggers[k].parent[2] = "root"
    /\ \A k1, k2 \in DOMAIN loggers :
          (/\ InNamespace(k1) /\ InNamespace(k2)
           /\ loggers[k1].parent[1] = loggers[k2].parent[1])
          => loggers[k1].parent = loggers[k2].parent

(* ---------------- C18 ---------------- *)
\* the last call was a create that returned
Created == last.op = "create" /\ ~last.info.threw

\* C18: with auto-prefixing enabled and a namespace resolved for the caller,
\* create registers the logger under namespace/name as a child of the root
\* sink of that namespace, and the mapping lookup is made with that qualified
\* name; with auto-prefixing disabled the logger is registered under the name
\* as given, as a child of the global root.
C18_QualifiedNameAndParent ==
    /\ (Created /\ enablePackagePrefix /\ PackageKey(last.info.caller) # NoName) =>
          /\ last.qname = PackageKey(last.info.caller) \o <<"/">> \o last.name
          /\ last.qname \in DOMAIN loggers
          /\ loggers[last.qname].parent = <<PackageKey(last.info.caller), "root">>
          /\ last.level = None =>
                loggers[last.qname].level =
                    IF \E i \in MappingIdx : Covers(levelMappings[i], last.qname)
                    THEN levelMappings[CHOOSE i \in MappingIdx :
                            /\ Covers(levelMappings[i], last.qname)
                            /\ ~Shadowed(i, last.qname)].level
                    ELSE defaultLevel
    /\ (Created /\ ~enablePackagePrefix) =>
          /\ last.qname = last.name
          /\ last.qname \in DOMAIN loggers
          /\ loggers[last.qname].parent = GlobalRoot

(* ---------------- C19 ---------------- *)
\* C19: a create for whose caller no namespace is resolved raises no error
\* and registers the logger under the name as given, as a child of the global
\* root.
C19_UnresolvedFallsBackSilently ==
    (last.op = "create" /\ enablePackagePrefix /\ last.info.caller = NoName) =>
        /\ ~last.info.threw
        /\ last.qname = last.name
        /\ last.qname \in DOMAIN loggers
        /\ loggers[last.qname].parent = GlobalRoot

(* ---------------- C20 ---------------- *)
\* C20: addLevelMapping puts its mapping at the end of the list and leaves the
\* mappings before it as they are and in their order; create, setLevel,
\* setChildrenLevel, emit and flush leave the list as it is.
C20_MappingsAppendOnly ==
    [][IF last'.op = "addLevelMapping"
       THEN levelMappings' =
                Append(levelMappings, [name |-> last'.name, level |-> last'.level])
       ELSE levelMappings' = levelMappings]_vars

\* two different mappings in the order they were added, after an emit
C20_Witness ==
    /\ last.op = "emit"
    /\ Len(levelMappings) = 2
    /\ levelMappings[1] = [name |-> N_pstar, level |-> "warn"]
    /\ levelMappings[2] = [name |-> N_pa, level |-> "error"]

(* ---------------- C21 ---------------- *)
\* level of the earliest registered mapping that applies to n, or the default
\* level when none applies
RuleLevel(n) ==
    IF \E i \in MappingIdx : Covers(levelMappings[i], n)
    THEN levelMappings[CHOOSE i \in MappingIdx :
            Covers(levelMappings[i], n) /\ ~Shadowed(i, n)].level
    ELSE defaultLevel

\* C21: setLevel and setChildrenLevel leave the mapping list as it is, and a
\* logger created or re-created afterwards without opts.level has the level
\* the mapping list or the default gives, whatever level its name had been
\* set to.
C21_LevelChangesAreNotDurable ==
    [][/\ last'.op \in {"setLevel", "setChildrenLevel"} =>
             levelMappings' = levelMappings
       /\ (last'.op = "create" /\ last'.level = None) =>
             loggers'[last'.qname].level = RuleLevel(last'.qname)]_vars

\* a name set to warn by setLevel, with no mapping registered, was created
\* again: the new logger has the default level, the replaced one is at warn
C21_Witness ==
    /\ last.op = "create"
    /\ last.level = None
    /\ levelMappings = <<>>
    /\ loggers[last.qname].level = defaultLevel
    /\ \E h \in detached : h.name = last.qname /\ h.level = "warn"

(* ---------------- C22 ---------------- *)
\* C22 as stated: whatever the name and the options, the logger the
\* production create returns has the manager's default level.
C22_LiveLevelIsDefault ==
    (manager = "live" /\ last.op = "create") =>
        last.info.handle.level = defaultLevel

\* C22, amended: the logger the production create returns has opts.level when
\* it is supplied, and the manager's default level otherwise.
C22_LiveLevelIsExplicitOrDefault ==
    (manager = "live" /\ last.op = "create") =>
        last.info.handle.level =
            IF last.level # None THEN last.level ELSE defaultLevel

\* a production create with an opts.level other than the default level
C22_Witness ==
    /\ manager = "live"
    /\ last.op = "create"
    /\ last.level # None
    /\ last.level # defaultLevel
    /\ last.info.handle.level = last.level

(* ---------------- C23 ---------------- *)
\* the call names n itself or a prefix of it, in any spelling
Addresses(name, n) == name = n \/ Under(n, NormalPrefix(name))

\* C23: the level of a registered logger changes only in a create of its own
\* qualified name or in a setLevel, setChildrenLevel or addLevelMapping that
\* names it or a prefix of it; emit, flush and the creates of other names
\* leave every level as it is.
C23_LevelChangesOnlyByLevelCalls ==
    [][\A k \in DOMAIN loggers :
          (k \notin DOMAIN loggers' \/ loggers'[k].level # loggers[k].level) =>
              \/ last'.op = "create" /\ last'.qname = k
              \/ /\ last'.op \in {"setLevel", "setChildrenLevel", "addLevelMapping"}
                 /\ Addresses(last'.name, k)]_vars

\* an emit on one of two loggers that were brought to different levels, one
\* of them by a level call
C23_Witness ==
    /\ last.op = "emit"
    /\ \E k1, k2 \in DOMAIN loggers :
          /\ loggers[k1].level = "warn"
          /\ loggers[k2].level = defaultLevel
          /\ defaultLevel # "warn"
          /\ \A i \in MappingIdx : ~Covers(levelMappings[i], k2)

(* ---------------- C25 ---------------- *)
\* the last call was a level call with a prefix pattern
PatternCall(c) ==
    /\ c.op \in {"setLevel", "setChildrenLevel", "addLevelMapping"}
    /\ IsPrefixPattern(c.name)

\* "p" of the pattern "p/*"
BaseOf(p) == [i \in 1..(Len(p) - 2) |-> p[i]]

\* C25 as stated: a level call with the pattern p/* sets the logger named
\* exactly p and every logger whose name starts with p/, and leaves all
\* others, px/a among them, as they are.
C25_PatternCoversTheNameItself ==
    [][PatternCall(last') =>
          \A k \in DOMAIN loggers :
              IF k = BaseOf(last'.name) \/ Under(k, PrefixOf(last'.name))
              THEN loggers'[k].level = last'.level
              ELSE loggers'[k].level = loggers[k].level]_vars

\* C25, amended: a level call with the pattern p/* sets every logger whose
\* name starts with p/ and leaves all others as they are, the logger named
\* exactly p and px/a among them.
C25_PatternCoversNestedNamesOnly ==
    [][PatternCall(last') =>
          \A k \in DOMAIN loggers :
              IF Under(k, PrefixOf(last'.name))
              THEN loggers'[k].level = last'.level
              ELSE loggers'[k].level = loggers[k].level]_vars

\* after a call with p/*: p/a has the level, the loggers p and px/a do not
C25_Witness ==
    /\ PatternCall(last)
    /\ last.name = N_pstar
    /\ {N_p, N_pa, N_pxa} \subseteq DOMAIN loggers
    /\ loggers[N_p].kind = "child"
    /\ loggers[N_p].level # last.level
    /\ loggers[N_pa].level = last.level
    /\ loggers[N_pxa].level # last.level

(* ---------------- C26 ---------------- *)
\* the directory d and its ancestors, the filesystem root included
UpToRoot(d) == {SubSeq(d, 1, i) : i \in 0..Len(d)}

\* those of them that hold a manifest
WithManifest(d) == UpToRoot(d) \cap DOMAIN Manifests

\* C26: findPackageRoot returns the nearest directory with a manifest among
\* the directory of the start path and its ancestors up to and including the
\* filesystem root, and undefined exactly when none of them has one.
C26_NearestManifestUpToRoot ==
    last.op = "findPackageRoot" =>
        IF WithManifest(last.name) = {}
        THEN last.count = 0
        ELSE /\ last.count = 1
             /\ last.qname \in WithManifest(last.name)
             /\ \A d \in WithManifest(last.name) : Len(d) <= Len(last.qname)

(* ---------------- C27 ---------------- *)
\* the three spellings of the prefix p
Spellings == {N_p, N_ps, N_pstar}

\* C27: setChildrenLevel treats the spellings p, p/ and p/* alike: from the
\* same table each of them sets the same loggers, those whose name starts
\* with p/, to the level and returns the same count; and normalizing a
\* normalized prefix gives the same prefix.
C27_SpellingsAlike ==
    /\ \A sp \in Spellings, l \in Levels :
          /\ ChildrenSet(sp, l) = ChildrenSet(N_p, l)
          /\ ChildrenCount(sp) = ChildrenCount(N_p)
    /\ \A sp \in SetChildrenNames :
          normalizePrefixMatch(normalizePrefixMatch(sp)) = normalizePrefixMatch(sp)
    /\ (last.op = "setChildrenLevel" /\ last.name \in Spellings) =>
          /\ \A n \in DOMAIN loggers : Under(n, N_ps) => loggers[n].level = last.level
          /\ last.count = Cardinality({n \in DOMAIN loggers : Under(n, N_ps)})

\* each spelling has set a logger under p/ and left one outside it alone
C27_WitnessSpelling(sp) ==
    /\ last.op = "setChildrenLevel"
    /\ last.name = sp
    /\ last.count >= 1
    /\ \E n \in DOMAIN loggers : Under(n, N_ps) /\ loggers[n].level = last.level
    /\ \E n \in DOMAIN loggers : ~Under(n, N_ps) /\ loggers[n].level # last.level

C27_Witness == C27_WitnessSpelling(N_pstar)

(* ---------------- C28 ---------------- *)
\* the mapping being registered repeats the name of a registered mapping with
\* another level
RegistersAgain(c) ==
    /\ c.op = "addLevelMapping"
    /\ \E i \in MappingIdx :
          levelMappings[i].name = c.name /\ levelMappings[i].level # c.level

\* C28: a create without opts.level takes the level of the earliest
\* registered mapping that applies to the qualified name, exact or pattern
\* alike; and when a second mapping is registered for an already mapped name
\* with another level, the existing loggers it applies to carry the new level
\* while a logger created afterwards gets the level registered first.
C28_FirstRegisteredWinsAtCreate ==
    [][
        /\ (last'.op = "create" /\ last'.level = None) =>
              /\ loggers'[last'.qname].level = RuleLevel(last'.qname)
              /\ \A i \in MappingIdx :
                    (Covers(levelMappings[i], last'.qname) /\ ~Shadowed(i, last'.qname))
                        => loggers'[last'.qname].level = levelMappings[i].level
        /\ RegistersAgain(last') =>
              /\ \A n \in DOMAIN loggers :
                    Covers([name |-> last'.name], n) => loggers'[n].level = last'.level
              /\ \A n \in {N_pa, N_pab} :
                    Covers([name |-> last'.name], n) =>
                        /\ RuleLevel(n)' = RuleLevel(n)
                        /\ \A i \in MappingIdx :
                              (levelMappings[i].name = last'.name /\ ~Shadowed(i, n))
                                  => RuleLevel(n)' = levelMappings[i].level
    ]_vars

\* p/* is mapped to warn and then to error, a logger that existed carries
\* error, and the logger created last got warn
C28_Witness ==
    /\ Len(levelMappings) = 2
    /\ levelMappings[1].name = levelMappings[2].name
    /\ levelMappings[1].level # levelMappings[2].level
    /\ CreatedPlain
    /\ Covers(levelMappings[1], last.qname)
    /\ CreatedLevel = levelMappings[1].level
    /\ \E n \in DOMAIN loggers :
          /\ n # last.qname
          /\ Covers(levelMappings[2], n)
          /\ loggers[n].level = levelMappings[2].level

(* ---------------- C29 ---------------- *)
\* the call c is a level operation
LevelCall(c) == c.op \in {"setLevel", "setChildrenLevel", "addLevelMapping"}

\* the level operation c applies to the qualified name n
Reaches(c, n) ==
    IF c.op = "setChildrenLevel" THEN Under(n, NormalPrefix(c.name))
    ELSE Covers([name |-> c.name], n)

C30_RootEntryIsStable ==
    [][
        /\ \A k \in DOMAIN loggers :
              loggers[k].kind = "root" =>
                  k \in DOMAIN loggers' /\ loggers'[k] = loggers[k]
        /\ \A k \in DOMAIN loggers :
              (/\ loggers[k].kind = "root"
               /\ last'.op = "create" /\ ~last'.info.threw
               /\ PackageKey(last'.info.caller) = k)
              => loggers'[last'.qname].parent = <<k, "root">>
    ]_vars

(* ---------------- C31 ---------------- *)
\* the logger registered under n was created with opts.level: in SpecSticky
\* these are the loggers created with opts.redact
WithExplicitLevel(n) == loggers[n].redact.set

\* C31: opts.level decides the level of a logger when it is created and no
\* longer: a later setLevel, setChildrenLevel or addLevelMapping whose name
\* or prefix applies to the logger sets its level to the level of the call,
\* for a logger created with opts.level as for one created without.
C31_ExplicitLevelIsNotSticky ==
    [][
        /\ (last'.op = "create" /\ last'.level # None) =>
              loggers'[last'.qname].level = last'.level
        /\ LevelCall(last') =>
              /\ \A n \in DOMAIN loggers :
                    (WithExplicitLevel(n) /\ Reaches(last', n))
                        => loggers'[n].level = last'.level
              /\ \A n \in DOMAIN loggers :
                    (~WithExplicitLevel(n) /\ Reaches(last', n))
                        => loggers'[n].level = last'.level
              /\ \A n \in DOMAIN loggers :
                    ~Reaches(last', n) => loggers'[n].level = loggers[n].level
    ]_vars

\* a level call has set a logger created with opts.level "debug" and a
\* logger created without opts.level to the same level, which is not debug
C31_Witness ==
    /\ LevelCall(last)
    /\ last.level # "debug"
    /\ \E n, m \in DOMAIN loggers :
          /\ WithExplicitLevel(n) /\ Reaches(last, n)
          /\ ~WithExplicitLevel(m) /\ Reaches(last, m)
          /\ loggers[n].level = last.level
          /\ loggers[m].level = last.level

====
